---- MODULE Spec2Model ----
(***************************************************************************)
(* The uptime-check job of the agent directory                             *)
(* (app/api/cron/ping-agents/route.ts): the trigger handler GET, the       *)
(* handshake pingAgent / waitForResponse with its timers and polls, the    *)
(* reachability fallback checkAgentReachability and the notifier           *)
(* notifyCreatorAgentDown.                                                 *)
(*                                                                         *)
(* One action per await point of the handler.  The network (the messaging  *)
(* SDK) is the environment: every call into it draws its outcome from the  *)
(* outcomes the call can have (a value, or an exception).  Time is counted *)
(* in milliseconds, in steps of the poll interval.                         *)
(*                                                                         *)
(* Two smaller parts of the directory stand beside the job: the public     *)
(* read endpoint (app/api/agents/route.ts) with its in-memory rate limiter *)
(* and the registry store it reads (loadAgents, normalizeAgent), and the   *)
(* filter of the directory page (useAgentFilter).                          *)
(***************************************************************************)
EXTENDS Integers, Sequences, FiniteSets, TLC

\* ------------------------------------------------------------- bounds
\* Number of records of the registry (app/data/agents.json).
NumAgents == 2
\* Polls of one handshake that may be in flight at the same time.
MaxInflight == 2
\* Requests to the read endpoint since the process started.
MaxRequests == 33
\* Requests to the read endpoint after the one that runs the cleanup.
MaxLate == 2
\* Steps of the clock of the read endpoint.
MaxTicks == 3
\* Files of the data directory (records of example-agents.json).
MaxFiles == 2

\* ------------------------------------------------------------- program constants
PING_MESSAGE == "ping"
PING_TIMEOUT_MS == 60000
POLL_INTERVAL_MS == 5000
\* app/api/agents/route.ts
RATE_LIMIT == 30
RATE_LIMIT_WINDOW == 60000
CLEANUP_PERIOD == 100

Statuses == {"online", "offline", "unknown"}
\* Creator addresses of the registry; NoCreator is an omitted agentCreator.
NoCreator == "none"
Creators == {"c1", "c2"}
CreatorField == Creators \cup {NoCreator}
\* The inbox of the prober (client.inboxId) and of an agent.
SelfInbox == "self"
AgentInbox == "agent"

AgentIdx == 1..NumAgents

\* Times (lastChecked, new Date()) are kept relative to the start of the
\* latest run: before it, or at or after it.
BeforeRun == 0
DuringRun == 1

\* ------------------------------------------------------------- state
VARIABLES
    agentsData,        \* the imported registry: [AgentIdx -> record]
    file,              \* app/data/agents.json on disk: the records last written
    pc,                \* position of the handler
    idx,               \* the for-loop's position in agents
    xmtpClient,        \* TRUE when Client.create returned a client
    previousStatus,    \* const previousStatus = agent.status
    newStatus,         \* let newStatus
    updatedAgents,     \* records pushed so far
    notifiedCreators,  \* Set of creators notified in this run
    response,          \* the response of the request: status code and body
    hs,                \* per agent: timers, polls and promise of waitForResponse
    probe,             \* what pingAgent did for the current agent
    runlog,            \* what this run did: attempts, alerts, calls, the write
    req                \* the request being authenticated and the env it runs in

VARIABLES
    rateLimitMap,      \* the read endpoint: ip -> {count, resetTime}, or no entry
    requestCount,      \* the read endpoint: let requestCount
    clock,             \* Date.now(), in milliseconds since the process started
    apiResponse,       \* the latest response of the read endpoint
    apilog             \* what the read endpoint did: grants, loads

VARIABLES
    dataFiles,         \* app/data: the stored records, as parsed from JSON
    pageAgents,        \* the page: the agents it was given (loadAgentsSync)
    searchQuery,       \* the page: useState('')
    selectedCategory   \* the page: useState(null)

jobvars == <<agentsData, file, pc, idx, xmtpClient, previousStatus, newStatus,
             updatedAgents, notifiedCreators, response, hs, probe, runlog, req>>
apivars == <<rateLimitMap, requestCount, clock, apiResponse, apilog>>
pagevars == <<dataFiles, pageAgents, searchQuery, selectedCategory>>
\* What the job neither reads nor writes.
dirvars == <<apivars, pagevars>>
vars == <<jobvars, dirvars>>

\* ------------------------------------------------------------- the read endpoint: state
\* request.headers.get('x-forwarded-for') after split(','): the addresses
\* of the header in order; none when the header is absent or empty.
NoForwarded == <<>>
ForwardedHeaders == {NoForwarded, <<"ip1">>, <<"ip1", "ip2">>}

\* GET, lines 89-90: the first address of the header, or 'unknown'.
ClientIp(forwarded) ==
    IF forwarded = NoForwarded THEN "unknown" ELSE Head(forwarded)

\* The keys of rateLimitMap.
Ips == {ClientIp(f) : f \in ForwardedHeaders}

\* The clock moves in steps of half a window.
TickMs == RATE_LIMIT_WINDOW \div 2
MaxClock == MaxTicks * TickMs

NoApiResponse == [status |-> "none"]

\* new Map(), line 38.
EmptyMap == [i \in {} |-> [count |-> 0, resetTime |-> 0]]

\* Per ip, from the responses it was given: the end of the window of its
\* latest allowed request, and the requests allowed in that window.
\* And the map and the latest decision of a limiter that never cleans up.
NewApiLog == [granted |-> [i \in Ips |-> [windowEnd |-> 0, n |-> 0]],
              shadow  |-> EmptyMap,
              shadowAllowed |-> TRUE,
              shadowRemaining |-> RATE_LIMIT]

\* The process has started (line 38, line 61).
ApiInit ==
    /\ rateLimitMap = EmptyMap
    /\ requestCount = 0
    /\ clock = 0
    /\ apiResponse = NoApiResponse
    /\ apilog = NewApiLog

\* ------------------------------------------------------------- the registry store and the page: state
\* Strings that are searched are sequences of characters.
Undefined == <<"undefined">>
\* A JSON value of a stored field: the field is absent, null, or a string.
AbsentField == "<absent>"
JsonNull == "<null>"
RawStatuses == {AbsentField, JsonNull, "", "online", "offline", "unknown", "degraded"}
RawTimes == {AbsentField, "2025-01-01T00:00:00.000Z"}

\* What the files say of an agent besides its status: name, ENS name
\* (optional), wallet address, categories.
Profiles ==
    { [agentName |-> <<"A", "b">>, agentENS |-> <<"b", "a">>,
       agentAddress |-> <<"0", "x", "C">>, agentCategories |-> {"defi", "nft"}],
      [agentName |-> <<"B", "a">>, agentENS |-> Undefined,
       agentAddress |-> <<"0", "x", "d">>, agentCategories |-> {"social"}] }

\* A file of app/data: a record, or content JSON.parse rejects.
StoredRecords ==
    { [parsable |-> TRUE, agentName |-> p.agentName, agentENS |-> p.agentENS,
       agentAddress |-> p.agentAddress, agentCategories |-> p.agentCategories,
       status |-> st, lastChecked |-> t] :
         p \in Profiles, st \in RawStatuses, t \in RawTimes }
Unparsable ==
    [parsable |-> FALSE, agentName |-> <<>>, agentENS |-> Undefined,
     agentAddress |-> <<>>, agentCategories |-> {},
     status |-> AbsentField, lastChecked |-> AbsentField]
StoredFiles == StoredRecords \cup {Unparsable}

\* The data directory: in dev mode the records of example-agents.json,
\* otherwise one file per agent.
Stores ==
    [devMode : BOOLEAN,
     files : UNION {[1..n -> StoredFiles] : n \in 0..MaxFiles}]

\* An empty data directory.
EmptyStore == [devMode |-> FALSE, files |-> <<>>]

\* One record, well-formed.
PlainStore ==
    [devMode |-> FALSE,
     files |-> << [parsable |-> TRUE, agentName |-> <<"A", "b">>,
                   agentENS |-> <<"b", "a">>, agentAddress |-> <<"0", "x", "C">>,
                   agentCategories |-> {"defi", "nft"},
                   status |-> "online", lastChecked |-> AbsentField] >>]

\* useState(null) of selectedCategory.
NullCategory == "<null>"

\* The page before its first render: useState([]), useState(''),
\* useState(null).
PageInitWith(stores) ==
    /\ dataFiles \in stores
    /\ pageAgents = <<>>
    /\ searchQuery = <<>>
    /\ selectedCategory = NullCategory

\* ------------------------------------------------------------- the request
\* process.env.CRON_SECRET: unset (the empty string is falsy too), or a secret.
NoSecret == ""
CronSecrets == {NoSecret, "s3cret"}
\* req.headers.get('authorization'): null when the header is absent.
NullHeader == "null"
AuthHeaders == {NullHeader, "Bearer s3cret", "Bearer other", "s3cret"}
NoRequest == [cronSecret |-> NoSecret, authHeader |-> NullHeader, walletKey |-> FALSE]

\* ------------------------------------------------------------- waitForResponse state
\* The messages conversation.messages({limit: 5}) can return: the ping of this
\* handshake, a message of the agent that was in the (reused) conversation
\* before the ping, a message of the agent that arrived after it.
PingMsg == [sender |-> SelfInbox, afterPing |-> TRUE]
StaleMsg == [sender |-> AgentInbox, afterPing |-> FALSE]
ReplyMsg == [sender |-> AgentInbox, afterPing |-> TRUE]

IdleHs == [timeout   |-> FALSE,     \* setTimeout(resolve(false)) pending
           interval  |-> FALSE,     \* setInterval(checkMessages) active
           cleanup   |-> FALSE,     \* setTimeout(clearInterval) pending
           elapsed   |-> 0,         \* ms since waitForResponse was called
           nextTick  |-> 0,         \* when the interval fires next
           inflight  |-> 0,         \* checkMessages calls not yet returned
           settled   |-> "none",    \* the promise: none, pending, true, false
           msgs      |-> {},        \* the conversation's messages
           polls     |-> 0,         \* checkMessages calls started
           pollThrew |-> FALSE,     \* a call threw while the promise was pending
           timedOut  |-> FALSE,     \* the timeout callback ran
           sawBefore |-> FALSE,     \* a poll read a message of another sender
                                    \* before the timeout callback ran
           sawLate   |-> FALSE]     \* ... after the timeout callback ran

NoProbe == [canMessage |-> "none", inboxId |-> "none",
            createDm |-> "none", sendText |-> "none"]

NewRunLog == [attempted  |-> {},                          \* agents notifyCreatorAgentDown was called for
              attemptsTo |-> [c \in CreatorField |-> 0],  \* calls of it per creator
              threw      |-> [c \in CreatorField |-> 0],  \* calls of it that threw
              alerts     |-> [c \in CreatorField |-> 0],  \* alert messages sent per creator
              reachable  |-> {},                          \* creators the lookup found reachable
              attemptedBefore |-> {},                     \* agents it was called for in the run before
              netCalls   |-> FALSE,                       \* a call into the messaging SDK was made
              alerted    |-> {},                          \* agents whose alert was sent
              skipped    |-> {},                          \* agents whose creator was found not reachable
              failed     |-> {},                          \* agents whose notification threw
              writes     |-> 0,                           \* calls of fs.writeFile
              written    |-> FALSE]                       \* fs.writeFile returned

StatusesOf(agents) == [k \in AgentIdx |-> agents[k].status]

\* The responses of the endpoint.
NoResponse == [status |-> "none"]
Response401 == [status |-> "401", error |-> "Unauthorized"]

\* ------------------------------------------------------------- Init
\* Creator addresses are interchangeable: "c2" is used only after "c1".
CreatorsInOrder(agents) ==
    \A k \in AgentIdx : agents[k].agentCreator = "c2" =>
        \E j \in 1..(k - 1) : agents[j].agentCreator = "c1"

\* The registries: every status and every creator for every record.
Registries ==
    {a \in [AgentIdx -> [agentAddress : AgentIdx, agentCreator : CreatorField,
                          status : Statuses, lastChecked : {BeforeRun}]] :
        /\ \A k \in AgentIdx : a[k].agentAddress = k
        /\ CreatorsInOrder(a)}

\* The module is loaded: agentsData is the content of agents.json at that time.
HandlerInit(registries) ==
    /\ agentsData \in registries
    /\ file = agentsData
    /\ pc = "idle"
    /\ idx = 1
    /\ xmtpClient = FALSE
    /\ previousStatus = "unknown"
    /\ newStatus = "unknown"
    /\ updatedAgents = <<>>
    /\ notifiedCreators = {}
    /\ response = NoResponse
    /\ hs = [k \in AgentIdx |-> IdleHs]
    /\ probe = NoProbe
    /\ runlog = NewRunLog
    /\ req = NoRequest

\* Everything is loaded: the job, the read endpoint, the page.
InitWith(registries) ==
    /\ HandlerInit(registries)
    /\ ApiInit
    /\ PageInitWith({EmptyStore})

Init == InitWith(Registries)

\* A registry for the specifications in which the job does not run.
IdleRegistry ==
    [k \in AgentIdx |-> [agentAddress |-> k, agentCreator |-> NoCreator,
                         status |-> "unknown", lastChecked |-> BeforeRun]]

InitApi ==
    /\ HandlerInit({IdleRegistry})
    /\ ApiInit
    /\ PageInitWith({PlainStore})

\* A request arrives (GET or POST: POST calls GET).  The scheduler runs the
\* job daily, one run at a time: the timers and polls of the run before are
\* long over.
\* When a run starts, every time recorded so far is before it.
Rebase(agents) ==
    [k \in DOMAIN agents |-> [agents[k] EXCEPT !.lastChecked = BeforeRun]]

Request ==
    /\ pc \in {"idle", "done"}
    /\ \E s \in CronSecrets, h \in AuthHeaders, w \in BOOLEAN :
          req' = [cronSecret |-> s, authHeader |-> h, walletKey |-> w]
    /\ pc' = "auth"
    /\ response' = NoResponse
    /\ runlog' = [NewRunLog EXCEPT !.attemptedBefore =
                     IF response.status = "401" THEN runlog.attemptedBefore
                     ELSE runlog.attempted]
    /\ hs' = [k \in AgentIdx |-> IdleHs]
    /\ probe' = NoProbe
    /\ updatedAgents' = <<>>
    /\ notifiedCreators' = {}
    /\ idx' = 1
    /\ xmtpClient' = FALSE
    /\ agentsData' = Rebase(agentsData)
    /\ file' = Rebase(file)
    /\ UNCHANGED <<dirvars, previousStatus, newStatus>>

\* The comparison without the "Bearer " prefix.
UnauthorizedNoPrefix(r) ==
    r.cronSecret # NoSecret /\ r.authHeader # r.cronSecret

\* GET, lines 65-69: cronSecret && authHeader !== `Bearer ${cronSecret}`
Unauthorized(r) ==
    r.cronSecret # NoSecret /\ r.authHeader # ("Bearer " \o r.cronSecret)

\* GET, lines 64-69: the 401 answer.
Reject ==
    /\ pc = "auth"
    /\ Unauthorized(req)
    /\ response' = Response401
    /\ pc' = "done"
    /\ UNCHANGED <<dirvars, agentsData, file, idx, xmtpClient, previousStatus, newStatus,
                   updatedAgents, notifiedCreators, hs, probe, runlog, req>>

\* A push that keeps the status loaded.
UpdatedRecordKeepsStatus(agent, status, now) == [agent EXCEPT !.lastChecked = now]

\* A loop that ends after its first record.
LoopPcStopsEarly(k) == IF k <= 1 THEN "check" ELSE "write"

\* Where the for loop stands after agent k: the next agent, or the write.
LoopPc(k) == IF k <= NumAgents THEN "check" ELSE "write"

\* GET, lines 71-100: the run starts; Client.create returns a client or throws.
ClientInit ==
    /\ pc = "auth"
    /\ ~Unauthorized(req)
    /\ \E created \in BOOLEAN :
          xmtpClient' = (req.walletKey /\ created)
    /\ updatedAgents' = <<>>
    /\ notifiedCreators' = {}
    /\ idx' = 1
    /\ pc' = LoopPc(1)
    /\ req' = NoRequest
    /\ UNCHANGED <<dirvars, agentsData, file, previousStatus, newStatus, response, hs,
                   probe, runlog>>

\* ------------------------------------------------------------- pingAgent
\* The outcomes of Client.canMessage(identifiers).get(address), of
\* fetchInboxIdByIdentifier, and of a call that returns or throws.
LookupOutcomes == {"yes", "no", "throw"}
InboxOutcomes == {"id", "null", "throw"}
CallOutcomes == {"ok", "throw"}

\* A catch that reports the agent as down.
PingAgentCatchOffline == "offline"

\* pingAgent's catch: any exception of the handshake.
PingAgentCatch == "unknown"

Called(log) == [log EXCEPT !.netCalls = TRUE]

\* An address that is not reachable reported as unresponsive.
NotReachableAsUnknown == "unknown"

\* pingAgent, line 202, and line 213.
NotReachableStatus == "offline"
NoInboxStatus == "offline"

\* pingAgent, lines 193-203 (with GET, lines 104-110): the reachability lookup.
PingCanMessage ==
    /\ pc = "check"
    /\ xmtpClient
    /\ previousStatus' = agentsData[idx].status
    /\ \E r \in LookupOutcomes :
          /\ probe' = [NoProbe EXCEPT !.canMessage = r]
          /\ newStatus' = CASE r = "yes" -> agentsData[idx].status
                            [] r = "no" -> NotReachableStatus
                            [] OTHER -> PingAgentCatch
          /\ pc' = IF r = "yes" THEN "fetchInbox" ELSE "reconcile"
    /\ runlog' = Called(runlog)
    /\ UNCHANGED <<dirvars, agentsData, file, idx, xmtpClient, updatedAgents,
                   notifiedCreators, response, hs, req>>

\* pingAgent, lines 205-214: the inbox id of the agent.
PingFetchInbox ==
    /\ pc = "fetchInbox"
    /\ \E r \in InboxOutcomes :
          /\ probe' = [probe EXCEPT !.inboxId = r]
          /\ newStatus' = CASE r = "id" -> newStatus
                            [] r = "null" -> NoInboxStatus
                            [] OTHER -> PingAgentCatch
          /\ pc' = IF r = "id" THEN "createDm" ELSE "reconcile"
    /\ UNCHANGED <<dirvars, agentsData, file, idx, xmtpClient, previousStatus,
                   updatedAgents, notifiedCreators, response, hs, runlog, req>>

\* pingAgent, line 217: the direct conversation is created, or the existing
\* one is returned, with what the agent wrote in it before.
PingCreateDm ==
    /\ pc = "createDm"
    /\ \E r \in CallOutcomes, stale \in BOOLEAN :
          /\ probe' = [probe EXCEPT !.createDm = r]
          /\ IF r = "ok"
             THEN /\ hs' = [hs EXCEPT ![idx] =
                              [IdleHs EXCEPT !.msgs = IF stale THEN {StaleMsg} ELSE {}]]
                  /\ pc' = "sendText"
                  /\ UNCHANGED newStatus
             ELSE /\ ~stale
                  /\ newStatus' = PingAgentCatch
                  /\ pc' = "reconcile"
                  /\ UNCHANGED hs
    /\ UNCHANGED <<dirvars, agentsData, file, idx, xmtpClient, previousStatus,
                   updatedAgents, notifiedCreators, response, runlog, req>>

\* waitForResponse, lines 241-279, up to the return of the promise: the
\* timeout is armed, checkMessages is called once, the interval and the
\* timer that clears it are armed.
WaitForResponseStart(h) ==
    [h EXCEPT !.timeout = TRUE, !.interval = TRUE, !.cleanup = TRUE,
              !.elapsed = 0, !.nextTick = POLL_INTERVAL_MS,
              !.inflight = 1, !.polls = 1, !.settled = "pending"]

\* pingAgent, lines 220-224: the ping is sent and the wait begins.
PingSendText ==
    /\ pc = "sendText"
    /\ \E r \in CallOutcomes :
          /\ probe' = [probe EXCEPT !.sendText = r]
          /\ IF r = "ok"
             THEN /\ hs' = [hs EXCEPT ![idx] =
                              WaitForResponseStart([@ EXCEPT !.msgs = @ \cup {PingMsg}])]
                  /\ pc' = "wait"
                  /\ UNCHANGED newStatus
             ELSE /\ newStatus' = PingAgentCatch
                  /\ pc' = "reconcile"
                  /\ UNCHANGED hs
    /\ UNCHANGED <<dirvars, agentsData, file, idx, xmtpClient, previousStatus,
                   updatedAgents, notifiedCreators, response, runlog, req>>

\* pingAgent, line 226: the promise of waitForResponse has settled.
HandshakeOutcome(settled) == IF settled = "true" THEN "online" ELSE "unknown"

WaitResolved ==
    /\ pc = "wait"
    /\ hs[idx].settled \in {"true", "false"}
    /\ newStatus' = HandshakeOutcome(hs[idx].settled)
    /\ pc' = "reconcile"
    /\ UNCHANGED <<dirvars, agentsData, file, idx, xmtpClient, previousStatus,
                   updatedAgents, notifiedCreators, response, hs, probe, runlog, req>>

\* checkAgentReachability (with GET, lines 104-114): the fallback without a
\* client; a failed lookup counts as not reachable.
CheckAgentReachability(r) == IF r = "yes" THEN TRUE ELSE FALSE

\* The two statuses of the fallback the other way round.
FallbackStatusSwapped(isReachable) == IF isReachable THEN "offline" ELSE "unknown"

FallbackStatus(isReachable) == IF isReachable THEN "unknown" ELSE "offline"

FallbackCheck ==
    /\ pc = "check"
    /\ ~xmtpClient
    /\ previousStatus' = agentsData[idx].status
    /\ \E r \in LookupOutcomes :
          /\ probe' = [NoProbe EXCEPT !.canMessage = r]
          /\ newStatus' = FallbackStatus(CheckAgentReachability(r))
    /\ pc' = "reconcile"
    /\ runlog' = Called(runlog)
    /\ UNCHANGED <<dirvars, agentsData, file, idx, xmtpClient, updatedAgents,
                   notifiedCreators, response, hs, req>>

\* ------------------------------------------------------------- waitForResponse: timers and polls
TimersPending(h) == h.timeout \/ h.interval \/ h.cleanup

IntervalDue(h) == h.interval /\ h.nextTick = h.elapsed
TimeoutDue(h) == h.timeout /\ h.elapsed = PING_TIMEOUT_MS
CleanupDue(h) == h.cleanup /\ h.elapsed = PING_TIMEOUT_MS

\* A check that forgets the sender: our own ping counts.
QualifiesAnySender(msg) == msg.sender = msg.sender

\* checkMessages, line 260: the message is from the agent, not from us.
Qualifies(msg) == msg.sender # SelfInbox

\* checkMessages, lines 258-265: some message of the list qualifies.
FoundResponse(msgs) == \E m \in msgs : Qualifies(m)

\* Once the handler has consumed the promise of a handshake, what its
\* remaining polls read changes nothing: the model keeps whether they find a
\* message, not which.  When its timers are over and its polls have
\* returned, the handshake is garbage: nothing refers to it.
Collect(h, consumed) ==
    IF ~consumed THEN h
    ELSE IF ~TimersPending(h) /\ h.inflight = 0 THEN IdleHs
    ELSE [h EXCEPT !.msgs = IF FoundResponse(@) THEN {PingMsg, ReplyMsg} ELSE @,
                   !.pollThrew = FALSE, !.sawBefore = FALSE, !.polls = 0]

\* The handler is past the await of agent k's handshake.
Consumed(k) == ~(k = idx /\ pc \in {"sendText", "wait", "reconcile", "notify"})

\* A promise that the latest resolve settles again.
ResolveLastWins(h, v) ==
    IF h.settled # "none" THEN [h EXCEPT !.settled = v] ELSE h

\* A timeout whose resolve(false) is lost.
ResolveOnlyTrue(h, v) ==
    IF h.settled = "pending" /\ v = "true" THEN [h EXCEPT !.settled = v] ELSE h

\* resolve(v): the first call settles the promise, later calls do nothing.
Resolve(h, v) == IF h.settled = "pending" THEN [h EXCEPT !.settled = v] ELSE h

\* The handler is running: it was resumed by a settled promise and runs, as
\* microtasks, up to its next call into the network.  No timer callback and
\* no completion of a call runs before it has got there.
HandlerRuns ==
    \/ pc = "reconcile"
    \/ pc = "wait" /\ hs[idx].settled \in {"true", "false"}

\* Time passes, by one poll interval, for every handshake with a timer
\* pending; a timer that is due runs before time passes again.
Tick ==
    /\ ~HandlerRuns
    /\ \E k \in AgentIdx : TimersPending(hs[k])
    /\ \A k \in AgentIdx :
          ~IntervalDue(hs[k]) /\ ~TimeoutDue(hs[k]) /\ ~CleanupDue(hs[k])
    /\ hs' = [k \in AgentIdx |->
                IF TimersPending(hs[k])
                THEN [hs[k] EXCEPT !.elapsed = @ + POLL_INTERVAL_MS]
                ELSE hs[k]]
    /\ UNCHANGED <<dirvars, agentsData, file, pc, idx, xmtpClient, previousStatus,
                   newStatus, updatedAgents, notifiedCreators, response,
                   probe, runlog, req>>

\* Timers of one delay that are due at the same time run in the order in
\* which they were armed: those of an earlier agent's handshake first.
FirstDue(k, due) == k \in due /\ \A j \in due : k <= j

\* waitForResponse, lines 242-244: the timeout callback.
TimeoutFire(k) ==
    /\ ~HandlerRuns
    /\ FirstDue(k, {j \in AgentIdx : TimeoutDue(hs[j])})
    /\ hs' = [hs EXCEPT ![k] =
                Resolve([@ EXCEPT !.timeout = FALSE, !.timedOut = TRUE], "false")]
    /\ UNCHANGED <<dirvars, agentsData, file, pc, idx, xmtpClient, previousStatus,
                   newStatus, updatedAgents, notifiedCreators, response,
                   probe, runlog, req>>

\* waitForResponse, line 274: the interval calls checkMessages.
IntervalFire(k) ==
    /\ ~HandlerRuns
    /\ FirstDue(k, {j \in AgentIdx : IntervalDue(hs[j])})
    /\ hs[k].inflight < MaxInflight
    /\ hs' = [hs EXCEPT ![k] =
                Collect([@ EXCEPT !.inflight = @ + 1, !.polls = @ + 1,
                                  !.nextTick = @ + POLL_INTERVAL_MS], Consumed(k))]
    /\ UNCHANGED <<dirvars, agentsData, file, pc, idx, xmtpClient, previousStatus,
                   newStatus, updatedAgents, notifiedCreators, response,
                   probe, runlog, req>>

\* waitForResponse, lines 277-279: the interval is cleared.  The timeout
\* was armed before this timer, with the same delay: it runs first.
CleanupFire(k) ==
    /\ ~HandlerRuns
    /\ FirstDue(k, {j \in AgentIdx : CleanupDue(hs[j])})
    /\ ~hs[k].timeout
    /\ hs' = [hs EXCEPT ![k] =
                Collect([@ EXCEPT !.cleanup = FALSE, !.interval = FALSE], Consumed(k))]
    /\ UNCHANGED <<dirvars, agentsData, file, pc, idx, xmtpClient, previousStatus,
                   newStatus, updatedAgents, notifiedCreators, response,
                   probe, runlog, req>>

\* checkMessages, lines 261-263: clearTimeout(timeout); resolve(true).
PollFound(h) == Resolve([h EXCEPT !.timeout = FALSE], "true")

\* What a returning call of checkMessages saw, for the record: it threw
\* while the promise was pending; or it read, before the timeout callback
\* ran, a message whose sender is not the prober.
Saw(h, r) ==
    [h EXCEPT !.pollThrew = @ \/ (r = "throw" /\ h.settled = "pending"),
              !.sawBefore = @ \/ (/\ r = "ok"
                                  /\ ~h.timedOut
                                  /\ \E m \in h.msgs : m.sender # SelfInbox),
              !.sawLate = @ \/ (/\ r = "ok"
                                /\ h.timedOut
                                /\ \E m \in h.msgs : m.sender # SelfInbox)]

\* checkMessages, lines 247-270: a call returns.  It threw (sync,
\* getConversationById or messages), or it read the conversation.
PollComplete(k, r) ==
    /\ ~HandlerRuns
    /\ hs[k].inflight > 0
    /\ LET h == Saw([hs[k] EXCEPT !.inflight = @ - 1], r)
           done == IF r = "ok" /\ FoundResponse(h.msgs) THEN PollFound(h) ELSE h
       IN  hs' = [hs EXCEPT ![k] = Collect(done, Consumed(k))]
    /\ UNCHANGED <<dirvars, agentsData, file, pc, idx, xmtpClient, previousStatus,
                   newStatus, updatedAgents, notifiedCreators, response,
                   probe, runlog, req>>

\* The agent answers the ping: its message reaches the conversation.
AgentReply(k) ==
    /\ ~HandlerRuns
    /\ PingMsg \in hs[k].msgs
    /\ ReplyMsg \notin hs[k].msgs
    /\ hs[k].inflight > 0 \/ hs[k].interval
    /\ hs' = [hs EXCEPT ![k].msgs = @ \cup {ReplyMsg}]
    /\ UNCHANGED <<dirvars, agentsData, file, pc, idx, xmtpClient, previousStatus,
                   newStatus, updatedAgents, notifiedCreators, response,
                   probe, runlog, req>>

\* ------------------------------------------------------------- the reconciler and the notifier
\* A rule that forgets the previous status.
NotifyOwedAnyOffline(prev, new) == new = "offline"

\* GET, line 122: the agent went offline.
NotifyOwed(prev, new) == prev = "online" /\ new = "offline"

\* A rule that forgets the set of creators already notified.
MayNotifyNoDedup(client, notified, creator) == client

\* A rule that forgets to ask for a client.
MayNotifyNoClient(client, notified, creator) == creator \notin notified

\* GET, line 123: there is a client, and this creator was not notified yet.
MayNotify(client, notified, creator) == client /\ creator \notin notified

\* A push that keeps the time of the check before.
UpdatedRecordOldTime(agent, status, now) == [agent EXCEPT !.status = status]

\* A push that loses the creator of the record.
UpdatedRecordNoCreator(agent, status, now) ==
    [agent EXCEPT !.status = status, !.lastChecked = now, !.agentCreator = NoCreator]

\* GET, lines 133-137: { ...agent, status: newStatus, lastChecked: now }.
UpdatedRecord(agent, status, now) ==
    [agent EXCEPT !.status = status, !.lastChecked = now]

\* GET, lines 133-140: the record is pushed and the loop goes on; the
\* locals of the loop body go out of scope.
Push ==
    /\ updatedAgents' = Append(updatedAgents,
                               UpdatedRecord(agentsData[idx], newStatus, DuringRun))
    /\ idx' = idx + 1
    /\ pc' = LoopPc(idx + 1)
    /\ previousStatus' = "unknown"
    /\ newStatus' = "unknown"
    /\ probe' = NoProbe
    /\ hs' = [hs EXCEPT ![idx] = Collect(@, TRUE)]

\* GET, lines 121-140 when no notification is made for the agent; lines
\* 121-125 when notifyCreatorAgentDown is called.
Reconcile ==
    /\ pc = "reconcile"
    /\ LET creator == agentsData[idx].agentCreator IN
       IF NotifyOwed(previousStatus, newStatus)
          /\ MayNotify(xmtpClient, notifiedCreators, creator)
       THEN /\ pc' = "notify"
            /\ runlog' = [runlog EXCEPT !.attempted = @ \cup {idx},
                                        !.attemptsTo[creator] = @ + 1]
            /\ UNCHANGED <<idx, updatedAgents, probe, hs, previousStatus, newStatus>>
       ELSE /\ Push
            /\ UNCHANGED runlog
    /\ UNCHANGED <<dirvars, agentsData, file, xmtpClient, notifiedCreators, response, req>>

\* The ways notifyCreatorAgentDown ends: it returns without sending (the
\* creator is not reachable, or has no inbox id), it sends the alert, or one
\* of its four calls throws and it rethrows.
NotifyOutcomes == {"unreachable", "noInbox", "sent", "throwCanMessage",
                   "throwInbox", "throwCreateDm", "throwSend"}

\* An omitted agentCreator is no address: the lookup of it finds nothing.
NotifyOutcomesFor(creator) ==
    IF creator = NoCreator THEN {"unreachable", "throwCanMessage"} ELSE NotifyOutcomes

NotifyThrows(outcome) ==
    outcome \in {"throwCanMessage", "throwInbox", "throwCreateDm", "throwSend"}

\* A notification that sends whenever no call throws.
AlertSentUnlessThrown(outcome) == ~NotifyThrows(outcome)

\* notifyCreatorAgentDown, lines 311-334: sendText is reached only past
\* both early returns.
AlertSent(outcome) == outcome = "sent"

\* A loop that never records the creator.
AfterNotifyNeverAdds(notified, creator, outcome) == notified

\* GET, lines 124-129: the creator is added when the call returned.
AfterNotify(notified, creator, outcome) ==
    IF NotifyThrows(outcome) THEN notified ELSE notified \cup {creator}

\* notifyCreatorAgentDown, lines 304-340, and GET, lines 126-140.
NotifyCreatorAgentDown ==
    /\ pc = "notify"
    /\ LET creator == agentsData[idx].agentCreator IN
       \E outcome \in NotifyOutcomesFor(creator) :
          /\ notifiedCreators' = AfterNotify(notifiedCreators, creator, outcome)
          /\ runlog' = [runlog EXCEPT
                !.alerts[creator] = IF AlertSent(outcome) THEN @ + 1 ELSE @,
                !.alerted = IF AlertSent(outcome) THEN @ \cup {idx} ELSE @,
                !.skipped = IF outcome = "unreachable" THEN @ \cup {idx} ELSE @,
                !.failed = IF NotifyThrows(outcome) THEN @ \cup {idx} ELSE @,
                !.threw[creator] = IF NotifyThrows(outcome) THEN @ + 1 ELSE @,
                !.reachable = IF outcome \in {"unreachable", "throwCanMessage"}
                              THEN @ ELSE @ \cup {creator}]
    /\ Push
    /\ UNCHANGED <<dirvars, agentsData, file, xmtpClient, response, req>>

\* ------------------------------------------------------------- the write and the response
\* A count that leaves the unknown out.
CountStatusNoUnknown(agents, status) ==
    IF status = "unknown" THEN 0
    ELSE Cardinality({k \in 1..Len(agents) : agents[k].status = status})

\* GET, lines 159-165.
CountStatus(agents, status) ==
    Cardinality({k \in 1..Len(agents) : agents[k].status = status})

Summary(agents, notified) ==
    [total    |-> Len(agents),
     online   |-> CountStatus(agents, "online"),
     offline  |-> CountStatus(agents, "offline"),
     unknown  |-> CountStatus(agents, "unknown"),
     notified |-> Cardinality(notified)]

\* GET, lines 169-174.
Response200(agents, notified) ==
    [status |-> "200", success |-> TRUE,
     summary |-> Summary(agents, notified), agents |-> agents]

\* GET, lines 175-184: the answer of the outer catch.
Response500 ==
    [status |-> "500", error |-> "Failed to check agent status",
     message |-> "Unknown error"]

\* A write whose failure reaches the outer catch.
WriteResponseOrError(ok, agents, notified) ==
    IF ok THEN Response200(agents, notified) ELSE Response500

\* GET, lines 143-174: a failed write is caught and logged; the response is
\* the same whether fs.writeFile returned (ok) or threw.
WriteResponse(ok, agents, notified) == Response200(agents, notified)

\* GET, lines 142-174: the registry is written (or the write throws, which
\* is logged), and the 200 response is returned.
WriteFile ==
    /\ pc = "write"
    /\ \E ok \in BOOLEAN :
          /\ file' = IF ok THEN updatedAgents ELSE file
          /\ runlog' = [runlog EXCEPT !.written = ok, !.writes = @ + 1]
          /\ response' = WriteResponse(ok, updatedAgents, notifiedCreators)
    /\ pc' = "done"
    /\ UNCHANGED <<dirvars, agentsData, idx, xmtpClient, previousStatus, newStatus,
                   updatedAgents, notifiedCreators, hs, probe, req>>

\* The route module is loaded again (a new process, a rebuild): the import
\* of agents.json is evaluated again and sees what is on disk; the timers of
\* the old process are gone.
ModuleLoad ==
    /\ pc \in {"idle", "done"}
    /\ agentsData # file
    /\ agentsData' = file
    /\ hs' = [k \in AgentIdx |-> IdleHs]
    /\ UNCHANGED <<dirvars, file, pc, idx, xmtpClient, previousStatus, newStatus,
                   updatedAgents, notifiedCreators, response, probe, runlog, req>>

\* ------------------------------------------------------------- the specifications
\* The steps of the handler (one per await), the same in every specification.
HandlerStep ==
    \/ Reject
    \/ ClientInit
    \/ PingCanMessage
    \/ PingFetchInbox
    \/ PingCreateDm
    \/ PingSendText
    \/ WaitResolved
    \/ FallbackCheck
    \/ Reconcile
    \/ NotifyCreatorAgentDown
    \/ WriteFile

\* The timers of waitForResponse.
TimerStep ==
    \/ \E k \in AgentIdx : TimeoutFire(k)
    \/ \E k \in AgentIdx : IntervalFire(k)
    \/ \E k \in AgentIdx : CleanupFire(k)

\* A network that answers within one poll interval and does not fail while
\* polling: time passes only while the handler waits for a response, and
\* not while a poll is in flight; every poll reads the
\* conversation; the agent answers the ping before the first poll reads, or
\* never.
\* checkMessages returns without an exception.
PromptPoll(k) == PollComplete(k, "ok")

PromptTick ==
    /\ pc = "wait"
    /\ \A k \in AgentIdx : hs[k].inflight = 0
    /\ Tick

PromptReply(k) ==
    /\ hs[k].elapsed = 0
    /\ hs[k].nextTick = POLL_INTERVAL_MS
    /\ hs[k].inflight = 1
    /\ AgentReply(k)

\* One request to a freshly loaded module.
FirstRequest == pc = "idle" /\ Request

\* Spec: one run over any registry, on a network that answers promptly.
Next ==
    \/ FirstRequest
    \/ HandlerStep
    \/ TimerStep
    \/ PromptTick
    \/ \E k \in AgentIdx : PromptPoll(k)
    \/ \E k \in AgentIdx : PromptReply(k)

Spec == Init /\ [][Next]_vars

\* SpecRerun: run after run (and reloads of the module) over the registries
\* of one creator, on a network that answers promptly.
OneCreatorRegistries ==
    {a \in Registries : \A k \in AgentIdx : a[k].agentCreator = "c1"}

InitRerun == InitWith(OneCreatorRegistries)

NextRerun ==
    \/ Request
    \/ ModuleLoad
    \/ HandlerStep
    \/ TimerStep
    \/ PromptTick
    \/ \E k \in AgentIdx : PromptPoll(k)
    \/ \E k \in AgentIdx : PromptReply(k)

SpecRerun == InitRerun /\ [][NextRerun]_vars

\* SpecTiming: one run over a registry of agents that were online, with
\* every timing of the network: calls and polls take any time, polls
\* overlap, the agent answers at any time.  Polls do not fail.
OnlineRegistries ==
    {a \in OneCreatorRegistries : \A k \in AgentIdx : a[k].status = "online"}

InitTiming == InitWith(OnlineRegistries)

NextTiming ==
    \/ FirstRequest
    \/ HandlerStep
    \/ TimerStep
    \/ Tick
    \/ \E k \in AgentIdx : PromptPoll(k)
    \/ \E k \in AgentIdx : AgentReply(k)

SpecTiming == InitTiming /\ [][NextTiming]_vars

\* SpecPollErrors: one run over a registry of agents that were online, on
\* a network that answers promptly, where a poll may fail.
NextPollErrors ==
    \/ FirstRequest
    \/ HandlerStep
    \/ TimerStep
    \/ PromptTick
    \/ \E k \in AgentIdx, r \in CallOutcomes : PollComplete(k, r)
    \/ \E k \in AgentIdx : PromptReply(k)

SpecPollErrors == InitTiming /\ [][NextPollErrors]_vars

\* SpecLive: SpecPollErrors with progress.  Every awaited call of the
\* handler settles (it returns or throws), Node runs the continuation of a
\* settled promise and the callback of a timer that is due, and time
\* passes: a step that is possible is eventually taken.
SpecLive == InitTiming /\ [][NextPollErrors]_vars /\ WF_vars(NextPollErrors)

\* ------------------------------------------------------------- the registry store: load
\* A JSON value that is falsy in JavaScript.
Falsy(v) == v \in {AbsentField, JsonNull, ""}

\* v || default
OrElse(v, default) == IF Falsy(v) THEN default ELSE v

\* normalizeAgent, page.tsx lines 306-312.
NormalizeAgent(agent) ==
    [agent EXCEPT !.status = OrElse(@, "unknown"),
                  !.lastChecked = OrElse(@, "")]

\* normalizeAgents, page.tsx lines 317-319.
NormalizeAgents(agents) == [k \in DOMAIN agents |-> NormalizeAgent(agents[k])]

IsParsable(f) == f.parsable

\* loadAgents / loadAgentsSync, page.tsx lines 209-298: in dev mode the
\* array of example-agents.json, or nothing when it cannot be read or
\* parsed; otherwise every file that parses, the others being skipped.
LoadAgents(store) ==
    IF store.devMode
    THEN IF \A k \in DOMAIN store.files : IsParsable(store.files[k])
         THEN NormalizeAgents(store.files)
         ELSE <<>>
    ELSE NormalizeAgents(SelectSeq(store.files, IsParsable))

\* ------------------------------------------------------------- the read endpoint
\* getRateLimitInfo, line 46: no record, or its window has ended.
WindowOver(map, ip, now) == ip \notin DOMAIN map \/ now > map[ip].resetTime

\* A limit that lets one more request through.
LimitReachedOffByOne(record) == record.count > RATE_LIMIT

\* getRateLimitInfo, line 52.
LimitReached(record) == record.count >= RATE_LIMIT

\* A set that drops every other entry.
MapSetAlone(map, ip, record) == [k \in {ip} |-> record]

\* rateLimitMap.set(ip, record)
MapSet(map, ip, record) ==
    [k \in DOMAIN map \cup {ip} |-> IF k = ip THEN record ELSE map[k]]

\* A remaining count read before the increment.
RemainingBeforeIncrement(record) == RATE_LIMIT - record.count + 1

\* getRateLimitInfo, line 57.
Remaining(record) == RATE_LIMIT - record.count

\* A limiter that counts a request before it checks the limit.
GetRateLimitInfoCountsFirst(map, ip, now) ==
    IF WindowOver(map, ip, now)
    THEN [map |-> MapSet(map, ip, [count |-> 1, resetTime |-> now + RATE_LIMIT_WINDOW]),
          allowed |-> TRUE, remaining |-> RATE_LIMIT - 1,
          resetIn |-> RATE_LIMIT_WINDOW]
    ELSE LET counted == [map EXCEPT ![ip].count = @ + 1] IN
         IF LimitReached(map[ip])
         THEN [map |-> counted, allowed |-> FALSE, remaining |-> 0,
               resetIn |-> map[ip].resetTime - now]
         ELSE [map |-> counted, allowed |-> TRUE,
               remaining |-> Remaining(counted[ip]),
               resetIn |-> map[ip].resetTime - now]

\* getRateLimitInfo, lines 42-58: the map after the call and what it returns.
GetRateLimitInfo(map, ip, now) ==
    IF WindowOver(map, ip, now)
    THEN [map |-> MapSet(map, ip, [count |-> 1, resetTime |-> now + RATE_LIMIT_WINDOW]),
          allowed |-> TRUE, remaining |-> RATE_LIMIT - 1,
          resetIn |-> RATE_LIMIT_WINDOW]
    ELSE IF LimitReached(map[ip])
    THEN [map |-> map, allowed |-> FALSE, remaining |-> 0,
          resetIn |-> map[ip].resetTime - now]
    ELSE LET counted == [map EXCEPT ![ip].count = @ + 1] IN
         [map |-> counted, allowed |-> TRUE,
          remaining |-> Remaining(counted[ip]),
          resetIn |-> map[ip].resetTime - now]

\* A cleanup that also deletes the record whose window ends now.
StaleAtBoundary(record, now) == now >= record.resetTime

\* cleanupRateLimitMap, line 67.
Stale(record, now) == now > record.resetTime

\* cleanupRateLimitMap, lines 62-72, for the request that makes the count
\* `count`: the map after the call.
CleanupRateLimitMap(map, count, now) ==
    IF count % CLEANUP_PERIOD = 0
    THEN [k \in {j \in DOMAIN map : ~Stale(map[j], now)} |-> map[k]]
    ELSE map

\* Math.ceil(ms / 1000)
CeilSeconds(ms) == (ms + 999) \div 1000

\* What the responses say of the requests allowed to ip: a window that
\* ends where the one before did goes on, another end is a new window.
Granted(log, ip, windowEnd) ==
    [log EXCEPT !.granted[ip] =
        IF @.windowEnd = windowEnd /\ @.n > 0
        THEN [@ EXCEPT !.n = @ + 1]
        ELSE [windowEnd |-> windowEnd, n |-> 1]]

\* The same request to a limiter that never cleans up.
Shadowed(log, ip, now) ==
    LET info == GetRateLimitInfo(log.shadow, ip, now) IN
    [log EXCEPT !.shadow = info.map,
                !.shadowAllowed = info.allowed,
                !.shadowRemaining = info.remaining]

\* GET, lines 87-137.  The handler runs without interruption up to its
\* await of loadAgents, which touches neither the map nor the counter.
\* Date.now() of getRateLimitInfo is not before that of the cleanup.
ApiGet(forwarded, maxCount) ==
    /\ requestCount < maxCount
    /\ \E now \in {clock, clock + TickMs} :
          /\ now <= MaxClock
          /\ LET ip == ClientIp(forwarded)
                 cleaned == CleanupRateLimitMap(rateLimitMap, requestCount + 1, clock)
                 rateLimit == GetRateLimitInfo(cleaned, ip, now)
             IN /\ requestCount' = requestCount + 1
                /\ rateLimitMap' = rateLimit.map
                /\ clock' = now
                /\ apiResponse' =
                      [status    |-> IF rateLimit.allowed THEN "200" ELSE "429",
                       success   |-> rateLimit.allowed,
                       limit     |-> RATE_LIMIT,
                       remaining |-> rateLimit.remaining,
                       reset     |-> CeilSeconds(rateLimit.resetIn),
                       agents    |-> IF rateLimit.allowed
                                     THEN LoadAgents(dataFiles) ELSE <<>>,
                       loaded    |-> rateLimit.allowed,
                       ip        |-> ip,
                       at        |-> now]
                /\ apilog' = IF rateLimit.allowed
                             THEN Granted(Shadowed(apilog, ip, now), ip,
                                          now + rateLimit.resetIn)
                             ELSE Shadowed(apilog, ip, now)

\* A request to the read endpoint from some caller.
Get ==
    /\ \E forwarded \in ForwardedHeaders : ApiGet(forwarded, MaxRequests)
    /\ UNCHANGED <<jobvars, pagevars>>

\* A request to a process that has served many.
GetLate ==
    /\ \E forwarded \in ForwardedHeaders :
          ApiGet(forwarded, CLEANUP_PERIOD + MaxLate)
    /\ UNCHANGED <<jobvars, pagevars>>

\* Time passes.
ApiTick ==
    /\ clock + TickMs <= MaxClock
    /\ clock' = clock + TickMs
    /\ UNCHANGED <<jobvars, pagevars, rateLimitMap, requestCount, apiResponse, apilog>>

\* SpecApi: requests to the read endpoint of a process that has just
\* started, over a store of one record; the job does not run.
NextApi ==
    \/ Get
    \/ ApiTick

SpecApi == InitApi /\ [][NextApi]_vars

\* SpecCleanup: the requests around the hundredth.  The process has
\* served 97 requests, all in its first millisecond: 5 without the header,
\* 30 of "ip1" that were allowed and 62 of "ip1" that were not.
InitLate ==
    /\ HandlerInit({IdleRegistry})
    /\ PageInitWith({PlainStore})
    /\ requestCount = CLEANUP_PERIOD - 3
    /\ clock = 0
    /\ rateLimitMap =
          [i \in Ips |-> [count |-> IF i = "ip1" THEN RATE_LIMIT ELSE 5,
                          resetTime |-> RATE_LIMIT_WINDOW]]
    /\ apiResponse =
          [status |-> "429", success |-> FALSE, limit |-> RATE_LIMIT,
           remaining |-> 0, reset |-> CeilSeconds(RATE_LIMIT_WINDOW),
           agents |-> <<>>, loaded |-> FALSE, ip |-> "ip1", at |-> 0]
    /\ apilog =
          [granted |-> [i \in Ips |->
                          [windowEnd |-> RATE_LIMIT_WINDOW,
                           n |-> IF i = "ip1" THEN RATE_LIMIT ELSE 5]],
           shadow |-> rateLimitMap,
           shadowAllowed |-> FALSE,
           shadowRemaining |-> 0]

NextCleanup ==
    \/ GetLate
    \/ ApiTick

SpecCleanup == InitLate /\ [][NextCleanup]_vars

\* ------------------------------------------------------------- the directory page
\* What the user types into the search box, and the category chips.
SearchQueries ==
    {<<>>, <<"a">>, <<"A", "B">>, <<"b", "a">>, <<"x", "c">>, <<"z">>}
SelectableCategories == {NullCategory, "defi", "social"}

\* String.prototype.toLowerCase, on the letters of the model.
LowerChar(c) ==
    CASE c = "A" -> "a"
      [] c = "B" -> "b"
      [] c = "C" -> "c"
      [] OTHER -> c
ToLowerCase(str) == [k \in DOMAIN str |-> LowerChar(str[k])]

\* String.prototype.includes: q occurs in str.
Includes(str, q) ==
    \E i \in 0..(Len(str) - Len(q)) : SubSeq(str, i + 1, i + Len(q)) = q

\* useAgentFilter, page.tsx lines 169-171: '' is falsy; an agent without
\* an ENS name matches by its name only.
MatchesSearch(agent, query) ==
    \/ query = <<>>
    \/ Includes(ToLowerCase(agent.agentName), ToLowerCase(query))
    \/ /\ agent.agentENS # Undefined
       /\ Includes(ToLowerCase(agent.agentENS), ToLowerCase(query))

\* useAgentFilter, page.tsx lines 174-175.
MatchesCategory(agent, category) ==
    \/ category = NullCategory
    \/ category \in agent.agentCategories

\* useAgentFilter, page.tsx lines 166-179: filteredAgents.
FilteredAgents(agents, query, category) ==
    LET Keep(agent) == MatchesSearch(agent, query) /\ MatchesCategory(agent, category)
    IN SelectSeq(agents, Keep)

\* Home, page.tsx lines 24-39: the page fetches /api/agents once, when it
\* mounts, and keeps the agents of a successful response.
FetchAgents ==
    /\ apiResponse = NoApiResponse
    /\ \E forwarded \in ForwardedHeaders : ApiGet(forwarded, MaxRequests)
    /\ pageAgents' = IF apiResponse'.success THEN apiResponse'.agents ELSE pageAgents
    /\ UNCHANGED <<jobvars, dataFiles, searchQuery, selectedCategory>>

\* useAgentFilter, page.tsx lines 181-183.
HandleSearch(query) ==
    /\ searchQuery' = query
    /\ UNCHANGED <<jobvars, apivars, dataFiles, pageAgents, selectedCategory>>

\* useAgentFilter, page.tsx lines 185-187.
HandleCategorySelect(category) ==
    /\ selectedCategory' = category
    /\ UNCHANGED <<jobvars, apivars, dataFiles, pageAgents, searchQuery>>

\* SpecPage: the page over any data directory: it fetches the agents from
\* the read endpoint of a process that has just started, and the user
\* searches and selects categories.  The job does not run.
InitPage ==
    /\ HandlerInit({IdleRegistry})
    /\ ApiInit
    /\ PageInitWith(Stores)

NextPage ==
    \/ FetchAgents
    \/ \E query \in SearchQueries : HandleSearch(query)
    \/ \E category \in SelectableCategories : HandleCategorySelect(category)

SpecPage == InitPage /\ [][NextPage]_vars

\* ------------------------------------------------------------- properties of the alert rule
\* The status computed in this run for agent k, once its check has ended.
Computed(k) ==
    IF k <= Len(updatedAgents) THEN updatedAgents[k].status ELSE newStatus

\* C1: in every run, an alert is attempted for an agent only if its status
\* as loaded was 'online' and the status computed in this run is 'offline';
\* for every other (previous, new) pair no alert is attempted.
C1_AlertOnlyOnlineToOffline ==
    \A k \in runlog.attempted :
        agentsData[k].status = "online" /\ Computed(k) = "offline"

\* A run has ended with an alert attempted for one agent and not for another.
C1_Witness ==
    /\ pc = "done"
    /\ response.status = "200"
    /\ runlog.attempted # {}
    /\ runlog.attempted # AgentIdx

\* C2: within one run no creator address is sent more than one alert
\* message, however many of its agents go online->offline and whatever the
\* outcome of the earlier attempts to that creator.
C2_AtMostOneAlert == \A c \in CreatorField : runlog.alerts[c] <= 1

\* A creator had two attempts in the run, the earlier one failed, and it
\* was sent one alert.
C2_Witness ==
    \E c \in Creators : runlog.attemptsTo[c] = 2 /\ runlog.alerts[c] = 1

\* C3, as stated: for every agent loaded 'online' whose outcome is
\* 'offline', exactly one notification attempt is made to its creator in the
\* run, provided the creator address is present and reachable.
C3_ExactlyOneAttempt ==
    \A k \in 1..Len(updatedAgents) :
        LET creator == agentsData[k].agentCreator IN
        (/\ agentsData[k].status = "online"
         /\ updatedAgents[k].status = "offline"
         /\ creator # NoCreator
         /\ creator \in runlog.reachable)
        => runlog.attemptsTo[creator] = 1

\* C3, amended: in a run with a messaging client, for every agent loaded
\* 'online' whose outcome is 'offline' and whose creator address is present,
\* at least one notification attempt is made to its creator in the run, and
\* no more attempts than one plus the number of attempts to that creator
\* that threw.
C3_OneAttemptUnlessThrown ==
    \A k \in 1..Len(updatedAgents) :
        LET creator == agentsData[k].agentCreator IN
        (/\ xmtpClient
         /\ agentsData[k].status = "online"
         /\ updatedAgents[k].status = "offline"
         /\ creator # NoCreator)
        => /\ runlog.attemptsTo[creator] >= 1
           /\ runlog.attemptsTo[creator] <= 1 + runlog.threw[creator]

\* A run with a client has ended in which an attempt to a creator threw and
\* a second attempt to it was made for a later agent.
C3_Witness ==
    /\ pc = "done"
    /\ xmtpClient
    /\ \E c \in Creators : runlog.threw[c] = 1 /\ runlog.attemptsTo[c] = 2

\* C4: across two consecutive runs, an agent that the first run set to
\* 'offline' gets no notification attempt in the second run, which sees the
\* status the first run wrote back.  While a run is under way, no alert has
\* been attempted in it for an agent for which the run before attempted
\* one and which the registry file holds as 'offline'.
C4_NoRepeatAlert ==
    pc \notin {"idle", "done"} =>
        \A k \in runlog.attempted :
            ~(k \in runlog.attemptedBefore /\ file[k].status = "offline")

\* ------------------------------------------------------------- properties of the trigger
\* C5: with a secret configured and an authorization header that is not
\* exactly 'Bearer <secret>', the endpoint answers 401 and does no
\* processing (no probe, no ping, no alert, no write); with no secret
\* configured, or with the matching header, the run proceeds.
C5_SecretGate ==
    /\ [](response.status = "401" =>
            /\ pc = "done"
            /\ req.cronSecret # NoSecret
            /\ req.authHeader # "Bearer " \o req.cronSecret
            /\ ~runlog.netCalls
            /\ ~runlog.written
            /\ runlog.attempted = {}
            /\ updatedAgents = <<>>
            /\ \A k \in AgentIdx : hs[k] = IdleHs)
    /\ [][(pc = "auth" /\ pc' # "auth") =>
            IF req.cronSecret # NoSecret
               /\ req.authHeader # "Bearer " \o req.cronSecret
            THEN pc' = "done" /\ response'.status = "401" /\ file' = file
            ELSE pc' \in {"check", "write"} /\ response'.status = "none"]_vars

\* A request with the wrong secret in a Bearer header was answered 401.
C5_Witness ==
    /\ response.status = "401"
    /\ req.cronSecret # NoSecret
    /\ req.authHeader = "Bearer other"

\* ------------------------------------------------------------- properties of the handshake
\* C6: pingAgent reports 'online' only when a message of the agent was
\* received after the ping of this handshake was sent; a message of the
\* agent that was in the conversation before the ping does not count.
C6_OnlineOnlyOnReply ==
    (pc = "reconcile" /\ newStatus = "online") =>
        \E m \in hs[idx].msgs : m.sender = AgentInbox /\ m.afterPing

C8_OfflineEndsHandshake ==
    (/\ pc = "reconcile"
     /\ xmtpClient
     /\ probe.canMessage = "no" \/ probe.inboxId = "null")
    => /\ newStatus = "offline"
       /\ probe.canMessage = "no" => probe.inboxId = "none"
       /\ probe.createDm = "none"
       /\ probe.sendText = "none"
       /\ hs[idx] = IdleHs

\* The handshake of the second agent ended on an address that is not
\* reachable, after the first agent was found 'offline' too.
C8_Witness ==
    /\ pc = "reconcile"
    /\ xmtpClient
    /\ idx = 2
    /\ probe.canMessage = "no"
    /\ updatedAgents[1].status = "offline"

\* C9: when the reachability lookup itself fails, the address is treated
\* as not reachable and the outcome is 'offline', in the fallback and in
\* the full handshake alike.
C9_LookupFailureIsOffline ==
    (pc = "reconcile" /\ probe.canMessage = "throw") => newStatus = "offline"

\* C10, as stated: any exception during inbox resolution, opening the
\* conversation, sending the ping or polling makes the agent's outcome
\* 'unknown', and every agent is in the output of the run.
C10_AnyExceptionUnknown ==
    /\ (/\ pc = "reconcile"
        /\ \/ probe.inboxId = "throw"
           \/ probe.createDm = "throw"
           \/ probe.sendText = "throw"
           \/ hs[idx].pollThrew)
       => newStatus = "unknown"
    /\ response.status = "200" => Len(updatedAgents) = NumAgents

\* C10, amended: an exception during inbox resolution, opening the
\* conversation or sending the ping makes the outcome 'unknown'; an
\* exception in a poll loses that poll only, the outcome is 'online' if
\* a poll observes a message before the timeout and 'unknown' if none does;
\* every agent is in the output of the run.
C10_ExceptionsContained ==
    /\ (/\ pc = "reconcile"
        /\ \/ probe.inboxId = "throw"
           \/ probe.createDm = "throw"
           \/ probe.sendText = "throw")
       => newStatus = "unknown"
    /\ (pc = "reconcile" /\ hs[idx].pollThrew)
       => newStatus = IF hs[idx].sawBefore THEN "online" ELSE "unknown"
    /\ response.status = "200" => Len(updatedAgents) = NumAgents

\* The first agent ended 'unknown' and the run went on; a poll of the
\* second agent threw, and a later poll of it found the answer.
C10_Witness ==
    /\ pc = "reconcile"
    /\ idx = 2
    /\ updatedAgents[1].status = "unknown"
    /\ hs[idx].pollThrew
    /\ hs[idx].msgs = {PingMsg, ReplyMsg}
    /\ newStatus = "online"

\* ------------------------------------------------------------- properties of the timers
\* C11: once waitForResponse has resolved, on a message found or at the
\* timeout, no timer of that handshake remains pending and no further poll
\* is made.  Before the 60 seconds of a handshake are over, a promise that
\* has settled has no timer left.
C11_NoTimerAfterResolve ==
    \A k \in AgentIdx :
        (hs[k].settled \in {"true", "false"} /\ hs[k].elapsed < PING_TIMEOUT_MS)
        => ~TimersPending(hs[k])

\* ------------------------------------------------------------- properties of the fallback
\* C12: with no wallet key, or when the client cannot be created, the run
\* has no client, and every agent of the run is checked by reachability
\* only: reachable gives 'unknown', not reachable (or a failed lookup)
\* gives 'offline', no handshake is started; the strategy does not change
\* during the run.
C12_FallbackForAllAgents ==
    /\ []((pc \notin {"idle", "auth"} /\ ~xmtpClient) =>
            /\ \A k \in AgentIdx : hs[k] = IdleHs
            /\ \A k \in 1..Len(updatedAgents) :
                  updatedAgents[k].status \in {"unknown", "offline"}
            /\ pc = "reconcile" =>
                  /\ probe.canMessage \in LookupOutcomes
                  /\ probe.inboxId = "none"
                  /\ newStatus = IF probe.canMessage = "yes"
                                 THEN "unknown" ELSE "offline")
    /\ [][/\ (pc = "auth" /\ pc' # "auth" /\ ~req.walletKey) => ~xmtpClient'
          /\ pc \in {"check", "fetchInbox", "createDm", "sendText", "wait",
                     "reconcile", "notify", "write"} => xmtpClient' = xmtpClient]_vars

\* A run without a client has ended: the first agent was found reachable,
\* the second not.
C12_Witness ==
    /\ pc = "done"
    /\ response.status = "200"
    /\ ~xmtpClient
    /\ updatedAgents[1].status = "unknown"
    /\ updatedAgents[2].status = "offline"

\* ------------------------------------------------------------- properties of the output
\* C13: after a run that returns 200, every record of the registry has
\* lastChecked at or after the start of the run, whatever its outcome and
\* whether or not its status changed; so has every record written.
C13_LastCheckedInRun ==
    response.status = "200" =>
        /\ Len(response.agents) = NumAgents
        /\ \A k \in 1..Len(response.agents) :
              response.agents[k].lastChecked >= DuringRun
        /\ runlog.written =>
              \A k \in 1..Len(file) : file[k].lastChecked >= DuringRun

\* A run has returned 200 with a record whose status did not change and a
\* record whose status did.
C13_Witness ==
    /\ response.status = "200"
    /\ \E k \in AgentIdx : response.agents[k].status = agentsData[k].status
    /\ \E k \in AgentIdx : response.agents[k].status # agentsData[k].status

\* C14: a run never adds or removes records: the list pushed, written and
\* returned has the records of the loaded registry in the same order, with
\* the same address and the same other fields; only status and lastChecked
\* are set.
C14_SameRecords ==
    /\ Len(updatedAgents) <= NumAgents
    /\ \A k \in 1..Len(updatedAgents) :
          /\ updatedAgents[k].agentAddress = agentsData[k].agentAddress
          /\ updatedAgents[k].agentCreator = agentsData[k].agentCreator
          /\ DOMAIN updatedAgents[k] = DOMAIN agentsData[k]
    /\ response.status = "200" =>
          /\ Len(updatedAgents) = NumAgents
          /\ response.agents = updatedAgents
    /\ Len(file) = NumAgents
    /\ \A k \in 1..Len(file) :
          /\ file[k].agentAddress = agentsData[k].agentAddress
          /\ file[k].agentCreator = agentsData[k].agentCreator

\* A run has written and returned a registry in which a status changed.
C14_Witness ==
    /\ response.status = "200"
    /\ runlog.written
    /\ \E k \in AgentIdx : file[k].status # agentsData[k].status
    /\ \E k \in AgentIdx : file[k].agentCreator = NoCreator

\* C15: if writing the registry fails, the run still answers 200 with
\* success true, the summary and the full list of records with the statuses
\* computed in this run; the file keeps its content.
C15_WriteFailureStill200 ==
    (runlog.writes > 0 /\ ~runlog.written) =>
        /\ response.status = "200"
        /\ response.success
        /\ response.agents = updatedAgents
        /\ Len(response.agents) = NumAgents
        /\ response.summary.total = NumAgents
        /\ file = agentsData

\* The write failed in a run that computed a new status for an agent.
C15_Witness ==
    /\ runlog.writes > 0
    /\ ~runlog.written
    /\ response.status = "200"
    /\ \E k \in AgentIdx : response.agents[k].status # agentsData[k].status

\* C16: within a run the registry is written at most once, and only after
\* every agent has been processed: when fs.writeFile has been called the
\* loop is over and the handler has answered, so no ping and no alert of
\* the run is sent after the write.
C16_WriteOnceAtTheEnd ==
    /\ runlog.writes <= 1
    /\ (runlog.writes > 0 \/ file # agentsData) =>
          /\ Len(updatedAgents) = NumAgents
          /\ pc = "done"
          /\ response.status = "200"
          /\ runlog.written => file = updatedAgents

\* The registry was written in a run that sent a ping and an alert.
C16_Witness ==
    /\ runlog.written
    /\ file # agentsData
    /\ \E c \in Creators : runlog.alerts[c] = 1
    /\ \E k \in AgentIdx : file[k].status = "online"

\* ------------------------------------------------------------- notifications in the output
\* C17: summary.notified of a 200 response is the number of distinct
\* creators to which an alert was sent in the run; a creator whose
\* notification was skipped is not counted.
C17_NotifiedCountsAlerts ==
    response.status = "200" =>
        response.summary.notified =
            Cardinality({c \in CreatorField : runlog.alerts[c] > 0})

\* C18: when the creator of an agent that went offline is absent or not
\* reachable, no alert is sent for that agent and the run does not fail:
\* once the notification has returned the record is pushed with status
\* offline and the time of the run, and the run answers 200.
C18_SkippedCreatorNoAlert ==
    /\ runlog.alerts[NoCreator] = 0
    /\ \A k \in runlog.attempted :
          (agentsData[k].agentCreator = NoCreator \/ k \in runlog.skipped) =>
              /\ k \notin runlog.alerted
              /\ k > Len(updatedAgents) => (pc = "notify" /\ idx = k)
              /\ k <= Len(updatedAgents) =>
                    /\ updatedAgents[k].status = "offline"
                    /\ updatedAgents[k].lastChecked = DuringRun
              /\ pc = "done" => /\ response.status = "200"
                                /\ response.agents[k] = updatedAgents[k]

\* A run has answered 200 after the notification of one agent was skipped
\* for a creator that is not reachable and the notification of another met
\* an absent creator.
C18_Witness ==
    /\ response.status = "200"
    /\ \E k \in runlog.skipped : agentsData[k].agentCreator # NoCreator
    /\ \E k \in runlog.attempted : agentsData[k].agentCreator = NoCreator

\* C19: a failure while notifying a creator is recovered inside the loop:
\* the agent that triggered it is pushed with its new status and the time
\* of the run, every later agent is still processed, and the write and the
\* 200 response still take place.
C19_NotifyFailureRecovered ==
    \A k \in runlog.failed :
        /\ k <= Len(updatedAgents)
        /\ updatedAgents[k].status = "offline"
        /\ updatedAgents[k].lastChecked = DuringRun
        /\ pc # "done" => idx > k
        /\ pc = "done" => /\ Len(updatedAgents) = NumAgents
                          /\ runlog.writes = 1
                          /\ response.status = "200"
                          /\ response.agents = updatedAgents

\* The notification for the first agent threw; the second agent was then
\* pinged and found online, and the registry was written.
C19_Witness ==
    /\ pc = "done"
    /\ 1 \in runlog.failed
    /\ updatedAgents[2].status = "online"
    /\ agentsData[2].status # "online"
    /\ runlog.written

\* ------------------------------------------------------------- the response
\* The handler has returned a response of one of the kinds of GET.
Answered ==
    /\ pc = "done"
    /\ \/ response = Response401
       \/ response = Response500
       \/ /\ response = Response200(updatedAgents, notifiedCreators)
          /\ Len(response.agents) = NumAgents
          /\ response.summary.total = NumAgents

\* C20: every invocation eventually returns a response, exactly one, and it
\* is a 401, a 500 with error and message, or a 200 with the summary and
\* the full list; once the secret has been accepted the response is a 200,
\* whatever probes failed.
C20_EventuallyOneResponse ==
    /\ (pc = "auth") ~> Answered
    /\ [](response.status # "none" <=> pc = "done")
    /\ [](pc = "done" => Answered)
    /\ []((pc \notin {"idle", "auth"} /\ pc # "done") => response = NoResponse)
    /\ []((response.status # "none" /\ runlog.netCalls) => response.status = "200")
    /\ [][response.status # "none" => response' = response]_vars

\* A run has answered 200 although the probe of an agent failed: that
\* agent is reported unknown, another online.
C20_Witness ==
    /\ Answered
    /\ response.status = "200"
    /\ response.summary.unknown >= 1
    /\ response.summary.online >= 1
    /\ response.summary.notified = 0

\* ------------------------------------------------------------- properties of the rate limiter
\* The window of ip, as its responses showed it, is open at time now.
WindowOpen(log, ip, now) ==
    log.granted[ip].n > 0 /\ now <= log.granted[ip].windowEnd

Decision(map, ip, now) ==
    LET info == GetRateLimitInfo(map, ip, now) IN
    <<info.allowed, info.remaining, info.resetIn>>

\* The times from now on.
Later == {t \in {k * TickMs : k \in 0..(MaxTicks + 2)} : t >= clock}

C25_CleanupChangesNothing ==
    /\ \A i \in DOMAIN rateLimitMap :
          i \in DOMAIN apilog.shadow /\ rateLimitMap[i] = apilog.shadow[i]
    /\ \A i \in DOMAIN apilog.shadow \ DOMAIN rateLimitMap :
          clock > apilog.shadow[i].resetTime
    /\ apiResponse.status # "none" =>
          /\ apiResponse.success = apilog.shadowAllowed
          /\ apiResponse.remaining = apilog.shadowRemaining

\* The cleanup of the hundredth request has deleted the records of both
\* callers, whose windows had ended; "ip1", which had used up its window,
\* has been allowed twice since, and 'unknown' has not come back.
C25_Witness ==
    /\ requestCount = CLEANUP_PERIOD + 1
    /\ "ip1" \in DOMAIN rateLimitMap
    /\ rateLimitMap["ip1"].count = 2
    /\ "unknown" \notin DOMAIN rateLimitMap
    /\ apilog.shadow["unknown"].count = 5

C27_RejectionChangesNothing ==
    /\ [](apiResponse.status = "429" =>
            ~apiResponse.loaded /\ apiResponse.agents = <<>>)
    /\ [][(requestCount' # requestCount /\ apiResponse'.status = "429") =>
            LET ip == apiResponse'.ip IN
            /\ ip \in DOMAIN rateLimitMap /\ ip \in DOMAIN rateLimitMap'
            /\ rateLimitMap'[ip] = rateLimitMap[ip]
            /\ apilog'.granted = apilog.granted]_vars

\* A caller was refused twice in its window, the second time half a window
\* after the first.
C27_Witness ==
    /\ apiResponse.status = "429"
    /\ apiResponse.at = TickMs
    /\ apiResponse.reset = 30
    /\ requestCount >= RATE_LIMIT + 2
    /\ rateLimitMap[apiResponse.ip] = [count |-> RATE_LIMIT, resetTime |-> RATE_LIMIT_WINDOW]

\* ------------------------------------------------------------- properties of the store and the page
\* C22: every record the store's load returns has a status that is one of
\* 'online', 'offline', 'unknown', whatever the file says (nothing, null,
\* the empty string, any other value); and so has every record a run of
\* the job puts out.
C22_StatusAlwaysEnum ==
    /\ apiResponse.status = "200" =>
          \A k \in DOMAIN apiResponse.agents :
              apiResponse.agents[k].status \in Statuses
    /\ \A k \in DOMAIN pageAgents : pageAgents[k].status \in Statuses
    /\ \A k \in DOMAIN updatedAgents : updatedAgents[k].status \in Statuses

\* The elements of a list.
Range(list) == {list[k] : k \in DOMAIN list}

\* C23: the filter returns an agent exactly when the query is a
\* case-insensitive substring of its name, of its ENS name or of its wallet
\* address, and the selected category, if any, is among its categories.
C23_FilterByNameEnsAddress ==
    \A k \in DOMAIN pageAgents :
        LET agent == pageAgents[k]
            q == ToLowerCase(searchQuery)
        IN agent \in Range(FilteredAgents(pageAgents, searchQuery, selectedCategory))
           <=> /\ \/ Includes(ToLowerCase(agent.agentName), q)
                  \/ agent.agentENS # Undefined /\ Includes(ToLowerCase(agent.agentENS), q)
                  \/ Includes(ToLowerCase(agent.agentAddress), q)
               /\ selectedCategory # NullCategory =>
                     selectedCategory \in agent.agentCategories

\* ------------------------------------------------------------- the fallback run and the summary
\* C28: in a run without a messaging client no agent ends 'online', no
\* alert is attempted or sent to any creator, not even for an agent that
\* goes from online to offline, and summary.notified is 0.
C28_FallbackNeverAlerts ==
    (pc \notin {"idle", "auth"} /\ response.status # "401" /\ ~xmtpClient) =>
        /\ newStatus # "online"
        /\ \A k \in 1..Len(updatedAgents) : updatedAgents[k].status # "online"
        /\ runlog.attempted = {}
        /\ \A c \in CreatorField : runlog.alerts[c] = 0
        /\ notifiedCreators = {}
        /\ response.status \in {"none", "200"}
        /\ response.status = "200" =>
              /\ response.summary.notified = 0
              /\ response.summary.online = 0

\* A run without a client has answered after an agent of a creator went
\* from online to offline.
C28_Witness ==
    /\ response.status = "200"
    /\ ~xmtpClient
    /\ \E k \in AgentIdx :
          /\ agentsData[k].status = "online"
          /\ agentsData[k].agentCreator \in Creators
          /\ response.agents[k].status = "offline"

\* The agents that went from online to offline in the run.
WentOffline(before, after) ==
    {k \in DOMAIN after : before[k].status = "online" /\ after[k].status = "offline"}

\* C29: in every 200 response summary.total is the number of records of
\* the loaded registry and is summary.online + summary.offline +
\* summary.unknown, and summary.notified is at most the number of agents
\* that went from online to offline in the run.
C29_SummaryAddsUp ==
    response.status = "200" =>
        /\ response.summary.total = Len(agentsData)
        /\ response.summary.total =
              response.summary.online + response.summary.offline
                  + response.summary.unknown
        /\ response.summary.notified
              <= Cardinality(WentOffline(agentsData, response.agents))

\* Two agents of one creator went offline and the creator counts once;
\* the other statuses of the summary are not all zero.
C29_Witness ==
    /\ response.status = "200"
    /\ Cardinality(WentOffline(agentsData, response.agents)) = 2
    /\ response.summary.notified = 1
    /\ response.summary.offline = 2

\* ------------------------------------------------------------- the promise of waitForResponse
\* C30: waitForResponse settles once, whatever the order of the timeout,
\* the interval ticks and the polls in flight: after the timeout has
\* resolved it false, a poll that returns later and finds a message leaves
\* it false and the agent 'unknown'; and an agent is 'online' only on a
\* message of its own conversation, whatever the other conversations hold.
C30_SettlesOnce ==
    \A k \in AgentIdx :
        /\ hs[k].timedOut => hs[k].settled = "false"
        /\ hs[k].settled = "true" => FoundResponse(hs[k].msgs)
        /\ hs[k].sawLate =>
              /\ hs[k].timedOut
              /\ k <= Len(updatedAgents)
              /\ updatedAgents[k].status = "unknown"
        /\ (k = idx /\ pc = "reconcile" /\ probe.sendText = "ok") =>
              /\ newStatus = "online" <=> hs[k].settled = "true"
              /\ newStatus = "unknown" <=> hs[k].settled = "false"

\* The first agent timed out and is 'unknown'; a poll of its handshake
\* that was in flight at the timeout has since found its reply, another is
\* still in flight; the second agent has been found online meanwhile.
C30_Witness ==
    /\ hs[1].sawLate
    /\ hs[1].inflight > 0
    /\ updatedAgents[1].status = "unknown"
    /\ idx = 2
    /\ pc = "reconcile"
    /\ newStatus = "online"

====
